---- MODULE Spec2Model ----
(***************************************************************************)
(* Model of the two whisper-to-InfluxDB converters:                        *)
(*   convert_icinga_whisper_to_influx.py  (script "influx": live write)    *)
(*   csv_based_whisper_to_lp.py           (script "csv": line-protocol     *)
(*                                         export to value.lp.gz)          *)
(* A Python str is a sequence of one-character strings, None is the model  *)
(* value None, a dict is the sequence of its (key, value) pairs in         *)
(* insertion order.  A character that a TLA+ string cannot hold is the     *)
(* string of its Python escape: "\\v" is the vertical tab, "\\xa0" the      *)
(* no-break space, "\\u2003" the em space.                                  *)
(***************************************************************************)
EXTENDS Integers, Sequences, FiniteSets, TLC

VARIABLES
    script,         \* which script runs: "sanitize", "path" (pure functions), "influx", "csv"
    status,         \* "start", "connected" (influx: before the measurements), "running",
                    \* "done", "exit" (sys.exit), "crash" (uncaught exception)
    tz,             \* the UTC offset of the time zone of the process, seconds
    measurements,   \* influx: the names client.get_list_measurements() answers with
    csv_file,       \* csv: the file args.csv names, [kind, headers]
    name,           \* sanitize_name: the argument name
    allow_slash,    \* sanitize_name: the argument allow_slash
    sanitized,      \* sanitize_name(name, allow_slash), None before the call
    resanitized,    \* sanitize_name(sanitized, allow_slash), None before the call
    identity,       \* construct_wsp_file_path: hostname, servicename, checkcommand, metric
    wsp_file_path,  \* the derived value.wsp path, None before the call
    wsp_files,      \* the value.wsp paths that exist on disk (os.path.isfile)
    lp_files,       \* the value.lp.gz files on disk: path -> list of lines
    simulate,       \* args.simulate
    debug,          \* args.debug
    work,           \* influx: the (measurement, point) items of the run; csv: the CSV rows
    idx,            \* 1-based position in work of the item being processed
    metrics,        \* csv: parse_performance_data(perf_data) of the current row
    midx,           \* csv: 1-based position in metrics, 0 before the row is read
    metric_info,    \* csv: the row's metric_info list
    fetch_calls,    \* the argument tuples of every whisper.fetch call
    fetch_results,  \* what every whisper.fetch call answered, in the order of fetch_calls
    emitted,        \* the records of the last conversion (points built / lines appended)
    written,        \* the argument of every influx_client.write_points call that returned
    log,            \* the logging records of the run
    outcomes        \* per processed identity, what happened to it

vars == <<script, status, tz, measurements, csv_file, name, allow_slash, sanitized, resanitized, identity,
          wsp_file_path, wsp_files, lp_files, simulate, debug, work, idx, metrics,
          midx, metric_info, fetch_calls, fetch_results, emitted, written, log, outcomes>>

None == "None"

(***************************************************************************)
(* Bounds of the model                                                     *)
(***************************************************************************)
MaxNameLen == 4     \* longest name given to sanitize_name
MaxCompLen == 2     \* longest component given to construct_wsp_file_path
MaxPerfLen == 6     \* longest enumerated performance-data string
MaxSamples == 3     \* most values in the whisper files one run reads
MaxItems == 2       \* most identities (influx) or CSV rows (csv) in one run

(***************************************************************************)
(* String helpers                                                          *)
(***************************************************************************)
Last(s) == s[Len(s)]

StringsUpTo(chars, n) == UNION {[1..k -> chars] : k \in 0..n}

RECURSIVE Concat(_)
Concat(parts) == IF parts = <<>> THEN <<>> ELSE Head(parts) \o Concat(Tail(parts))

\* s.startswith(p)
startswith(s, p) == Len(s) >= Len(p) /\ SubSeq(s, 1, Len(p)) = p

\* s.endswith(p)
endswith(s, p) == Len(s) >= Len(p) /\ SubSeq(s, Len(s) - Len(p) + 1, Len(s)) = p

(***************************************************************************)
(* sanitize_name                                                           *)
(***************************************************************************)
\* the characters \s matches in a str pattern: the ASCII whitespace characters, the
\* separators \x1c to \x1f, and the Unicode spaces
Whitespace ==
    {"\t", "\n", "\\v", "\f", "\r", "\\x1c", "\\x1d", "\\x1e", "\\x1f", " ", "\\x85",
     "\\xa0", "\\u1680", "\\u2000", "\\u2001", "\\u2002", "\\u2003", "\\u2004",
     "\\u2005", "\\u2006", "\\u2007", "\\u2008", "\\u2009", "\\u200a", "\\u2028",
     "\\u2029", "\\u202f", "\\u205f", "\\u3000"}

\* the character class [\\/\s\.]
SanClass == {"\\", "/", "."} \cup Whitespace

\* index of the last character of the maximal run of class characters that starts at i
RECURSIVE RunEnd(_, _, _)
RunEnd(s, i, class) ==
    IF i < Len(s) /\ s[i + 1] \in class THEN RunEnd(s, i + 1, class) ELSE i

\* a bug: the class without its +, every character replaced on its own
RECURSIVE re_sub_each(_, _)
re_sub_each(s, i) ==
    IF i > Len(s) THEN <<>>
    ELSE IF s[i] \in SanClass THEN <<"_">> \o re_sub_each(s, i + 1)
    ELSE <<s[i]>> \o re_sub_each(s, i + 1)

\* re.sub(r'[\\/\s\.]+', '_', s) from position i: leftmost, longest matches
RECURSIVE re_sub_runs(_, _)
re_sub_runs(s, i) ==
    IF i > Len(s) THEN <<>>
    ELSE IF s[i] \in SanClass
         THEN <<"_">> \o re_sub_runs(s, RunEnd(s, i, SanClass) + 1)
         ELSE <<s[i]>> \o re_sub_runs(s, i + 1)

\* s.replace('::', r) from position i: left to right, non-overlapping
RECURSIVE str_replace_colons(_, _, _)
str_replace_colons(s, i, r) ==
    IF i > Len(s) THEN <<>>
    ELSE IF i < Len(s) /\ s[i] = ":" /\ s[i + 1] = ":"
         THEN r \o str_replace_colons(s, i + 2, r)
         ELSE <<s[i]>> \o str_replace_colons(s, i + 1, r)

sanitize_name(n, slash) ==
    LET collapsed == re_sub_runs(n, 1)
    IN  IF slash THEN str_replace_colons(collapsed, 1, <<"/">>)
        ELSE str_replace_colons(collapsed, 1, <<"_">>)

(***************************************************************************)
(* construct_wsp_file_path                                                 *)
(***************************************************************************)
\* os.path.join(a, b) for one more component b
path_join2(a, b) ==
    IF startswith(b, <<"/">>) THEN b
    ELSE IF a = <<>> \/ endswith(a, <<"/">>) THEN a \o b
    ELSE a \o <<"/">> \o b

\* os.path.join(parts[1], parts[2], ...)
RECURSIVE path_join(_)
path_join(parts) ==
    IF Len(parts) = 1 THEN parts[1]
    ELSE path_join2(path_join(SubSeq(parts, 1, Len(parts) - 1)), Last(parts))

\* index of the last "/" of p, 0 when there is none: p.rfind('/') + 1
RECURSIVE rfind_slash(_, _)
rfind_slash(p, i) ==
    IF i = 0 THEN 0 ELSE IF p[i] = "/" THEN i ELSE rfind_slash(p, i - 1)

\* s.rstrip('/')
RECURSIVE rstrip_slash(_)
rstrip_slash(s) ==
    IF s # <<>> /\ Last(s) = "/" THEN rstrip_slash(SubSeq(s, 1, Len(s) - 1)) ELSE s

\* os.path.dirname(p)
path_dirname(p) ==
    LET head == SubSeq(p, 1, rfind_slash(p, Len(p)))
    IN  IF head # <<>> /\ rstrip_slash(head) # <<>> THEN rstrip_slash(head) ELSE head

HOSTCHECK == <<"H", "O", "S", "T", "C", "H", "E", "C", "K">>
BASE_PATH == <<"/", "m", "i", "g", "-", "p", "e", "r", "f", "-", "d", "a", "t", "a", "/",
               "w", "h", "i", "s", "p", "e", "r", "/", "i", "c", "i", "n", "g", "a", "2">>
\* config['base_path'] of the influx script: read from the YAML file
config_base_path == BASE_PATH
DirHost == <<"h", "o", "s", "t">>
DirServices == <<"s", "e", "r", "v", "i", "c", "e", "s">>
DirPerfdata == <<"p", "e", "r", "f", "d", "a", "t", "a">>
FileValueWsp == <<"v", "a", "l", "u", "e", ".", "w", "s", "p">>
FileValueLpGz == <<"v", "a", "l", "u", "e", ".", "l", "p", ".", "g", "z">>

\* a bug: the service directory left out of the path
construct_wsp_file_path_no_service(base_path, hostname, servicename, checkcommand, metric) ==
    path_join(<<base_path,
                sanitize_name(hostname, FALSE),
                IF servicename = HOSTCHECK THEN DirHost ELSE DirServices,
                checkcommand,
                DirPerfdata,
                sanitize_name(metric, TRUE),
                FileValueWsp>>)

\* convert_icinga_whisper_to_influx.py
construct_wsp_file_path_influx(base_path, hostname, servicename, checkcommand, metric) ==
    path_join(<<base_path,
                sanitize_name(hostname, FALSE),
                IF servicename = HOSTCHECK THEN DirHost ELSE DirServices,
                sanitize_name(servicename, FALSE),
                checkcommand,
                DirPerfdata,
                sanitize_name(metric, TRUE),
                FileValueWsp>>)

\* csv_based_whisper_to_lp.py
construct_wsp_file_path_csv(hostname, servicename, checkcommand, metric) ==
    path_join(<<BASE_PATH,
                sanitize_name(hostname, FALSE),
                DirServices,
                sanitize_name(servicename, FALSE),
                checkcommand,
                DirPerfdata,
                sanitize_name(metric, TRUE),
                FileValueWsp>>)

\* the path either script derives for an identity
construct_wsp_file_path(which, id) ==
    IF which = "influx"
    THEN construct_wsp_file_path_influx(config_base_path, id.hostname, id.servicename,
                                        id.checkcommand, id.metric)
    ELSE construct_wsp_file_path_csv(id.hostname, id.servicename, id.checkcommand,
                                     id.metric)

(***************************************************************************)
(* parse_performance_data                                                  *)
(***************************************************************************)
\* \S
NonSpace(c) == c \notin Whitespace

\* index of the last character of the maximal run of \S characters that starts at i
RECURSIVE NonSpaceEnd(_, _)
NonSpaceEnd(s, i) ==
    IF i < Len(s) /\ NonSpace(s[i + 1]) THEN NonSpaceEnd(s, i + 1) ELSE i

\* index of the first "'" of s at or after i, 0 when there is none
RECURSIVE NextQuote(_, _)
NextQuote(s, i) ==
    IF i > Len(s) THEN 0 ELSE IF s[i] = "'" THEN i ELSE NextQuote(s, i + 1)

\* '=(\S+)' right after index k: "=" at k+1 and at least one \S character behind it
EqualsValueAfter(s, k) ==
    k + 2 <= Len(s) /\ s[k + 1] = "=" /\ NonSpace(s[k + 2])

\* the match of ((?:'[^']*'|\S+))=(\S+) that starts at p: [label, last], last = 0 for none
MatchAt(s, p) ==
    LET q == IF s[p] = "'" THEN NextQuote(s, p + 1) ELSE 0
        r == NonSpaceEnd(s, p)
        \* \S+ is greedy: the longest label that still leaves =(\S+) behind it
        ks == {k \in p..r : EqualsValueAfter(s, k)}
        k == CHOOSE x \in ks : \A y \in ks : y <= x
    IN  IF q # 0 /\ EqualsValueAfter(s, q)
        THEN [label |-> SubSeq(s, p, q), last |-> NonSpaceEnd(s, q + 2)]
        ELSE IF NonSpace(s[p]) /\ ks # {}
        THEN [label |-> SubSeq(s, p, k), last |-> NonSpaceEnd(s, k + 2)]
        ELSE [label |-> <<>>, last |-> 0]

\* a bug: ";" taken for a token separator, the value stopping at it
RECURSIVE re_findall_semicolon(_, _)
re_findall_semicolon(s, p) ==
    IF p > Len(s) THEN <<>>
    ELSE LET m == MatchAt(s, p)
             semi == {j \in p..Len(s) : s[j] = ";" /\ m.last # 0 /\ j > p + Len(m.label) /\ j <= m.last}
             stop == IF semi = {} THEN m.last
                     ELSE CHOOSE j \in semi : \A j2 \in semi : j <= j2
         IN  IF m.last = 0 THEN re_findall_semicolon(s, p + 1)
             ELSE <<m.label>> \o re_findall_semicolon(s, stop + 1)

\* the labels of re.findall(pattern, s) from position p on: non-overlapping, left to right
RECURSIVE re_findall_labels(_, _)
re_findall_labels(s, p) ==
    IF p > Len(s) THEN <<>>
    ELSE LET m == MatchAt(s, p)
         IN  IF m.last = 0 THEN re_findall_labels(s, p + 1)
             ELSE <<m.label>> \o re_findall_labels(s, m.last + 1)

\* label.strip("'")
RECURSIVE strip_quotes(_)
strip_quotes(s) ==
    IF s # <<>> /\ Head(s) = "'" THEN strip_quotes(Tail(s))
    ELSE IF s # <<>> /\ Last(s) = "'" THEN strip_quotes(SubSeq(s, 1, Len(s) - 1))
    ELSE s

\* metrics[key] = value on a dict kept as a sequence of pairs in insertion order
dict_set(d, key, value) ==
    IF \E i \in 1..Len(d) : d[i][1] = key
    THEN [i \in 1..Len(d) |-> IF d[i][1] = key THEN <<key, value>> ELSE d[i]]
    ELSE Append(d, <<key, value>>)

RECURSIVE metrics_of(_, _)
metrics_of(labels, d) ==
    IF labels = <<>> THEN d
    ELSE LET original_label == strip_quotes(Head(labels))
             sanitized_label == sanitize_name(original_label, TRUE)
         IN  metrics_of(Tail(labels), dict_set(d, original_label, sanitized_label))

parse_performance_data(perf_data) == metrics_of(re_findall_labels(perf_data, 1), <<>>)

(***************************************************************************)
(* Timestamps: datetime.strptime(...).timestamp(), which reads the naive   *)
(* datetime as local time of the process, and                              *)
(* datetime.utcfromtimestamp(t).strftime('%Y-%m-%dT%H:%M:%SZ'), which is    *)
(* UTC whatever the time zone.  The time zone of the process is its UTC    *)
(* offset in seconds, the same for every date of the run.                  *)
(***************************************************************************)
DaysFromCivil(y0, m, d) ==
    LET y == IF m <= 2 THEN y0 - 1 ELSE y0
        era == y \div 400
        yoe == y - era * 400
        mp == IF m > 2 THEN m - 3 ELSE m + 9
        doy == (153 * mp + 2) \div 5 + d - 1
        doe == yoe * 365 + yoe \div 4 - yoe \div 100 + doy
    IN  era * 146097 + doe - 719468

CivilFromDays(z0) ==
    LET z == z0 + 719468
        era == z \div 146097
        doe == z - era * 146097
        yoe == (doe - doe \div 1460 + doe \div 36524 - doe \div 146096) \div 365
        doy == doe - (365 * yoe + yoe \div 4 - yoe \div 100)
        mp == (5 * doy + 2) \div 153
        d == doy - (153 * mp + 2) \div 5 + 1
        m == IF mp < 10 THEN mp + 3 ELSE mp - 9
        y == yoe + era * 400 + (IF m <= 2 THEN 1 ELSE 0)
    IN  <<y, m, d>>

\* the digits str() and strftime write
Digits == <<"0", "1", "2", "3", "4", "5", "6", "7", "8", "9">>

\* the decimal digits of Unicode (category Nd), what \d of a str pattern matches and
\* int() reads: one row per script, the digits 0 to 9 in order; a digit outside
\* ASCII is written as its Python escape
DecimalDigits ==
    <<<<"0", "1", "2", "3", "4",
        "5", "6", "7", "8", "9">>,
      <<"\\u0660", "\\u0661", "\\u0662", "\\u0663", "\\u0664",
        "\\u0665", "\\u0666", "\\u0667", "\\u0668", "\\u0669">>,
      <<"\\u06f0", "\\u06f1", "\\u06f2", "\\u06f3", "\\u06f4",
        "\\u06f5", "\\u06f6", "\\u06f7", "\\u06f8", "\\u06f9">>,
      <<"\\u07c0", "\\u07c1", "\\u07c2", "\\u07c3", "\\u07c4",
        "\\u07c5", "\\u07c6", "\\u07c7", "\\u07c8", "\\u07c9">>,
      <<"\\u0966", "\\u0967", "\\u0968", "\\u0969", "\\u096a",
        "\\u096b", "\\u096c", "\\u096d", "\\u096e", "\\u096f">>,
      <<"\\u09e6", "\\u09e7", "\\u09e8", "\\u09e9", "\\u09ea",
        "\\u09eb", "\\u09ec", "\\u09ed", "\\u09ee", "\\u09ef">>,
      <<"\\u0a66", "\\u0a67", "\\u0a68", "\\u0a69", "\\u0a6a",
        "\\u0a6b", "\\u0a6c", "\\u0a6d", "\\u0a6e", "\\u0a6f">>,
      <<"\\u0ae6", "\\u0ae7", "\\u0ae8", "\\u0ae9", "\\u0aea",
        "\\u0aeb", "\\u0aec", "\\u0aed", "\\u0aee", "\\u0aef">>,
      <<"\\u0b66", "\\u0b67", "\\u0b68", "\\u0b69", "\\u0b6a",
        "\\u0b6b", "\\u0b6c", "\\u0b6d", "\\u0b6e", "\\u0b6f">>,
      <<"\\u0be6", "\\u0be7", "\\u0be8", "\\u0be9", "\\u0bea",
        "\\u0beb", "\\u0bec", "\\u0bed", "\\u0bee", "\\u0bef">>,
      <<"\\u0c66", "\\u0c67", "\\u0c68", "\\u0c69", "\\u0c6a",
        "\\u0c6b", "\\u0c6c", "\\u0c6d", "\\u0c6e", "\\u0c6f">>,
      <<"\\u0ce6", "\\u0ce7", "\\u0ce8", "\\u0ce9", "\\u0cea",
        "\\u0ceb", "\\u0cec", "\\u0ced", "\\u0cee", "\\u0cef">>,
      <<"\\u0d66", "\\u0d67", "\\u0d68", "\\u0d69", "\\u0d6a",
        "\\u0d6b", "\\u0d6c", "\\u0d6d", "\\u0d6e", "\\u0d6f">>,
      <<"\\u0de6", "\\u0de7", "\\u0de8", "\\u0de9", "\\u0dea",
        "\\u0deb", "\\u0dec", "\\u0ded", "\\u0dee", "\\u0def">>,
      <<"\\u0e50", "\\u0e51", "\\u0e52", "\\u0e53", "\\u0e54",
        "\\u0e55", "\\u0e56", "\\u0e57", "\\u0e58", "\\u0e59">>,
      <<"\\u0ed0", "\\u0ed1", "\\u0ed2", "\\u0ed3", "\\u0ed4",
        "\\u0ed5", "\\u0ed6", "\\u0ed7", "\\u0ed8", "\\u0ed9">>,
      <<"\\u0f20", "\\u0f21", "\\u0f22", "\\u0f23", "\\u0f24",
        "\\u0f25", "\\u0f26", "\\u0f27", "\\u0f28", "\\u0f29">>,
      <<"\\u1040", "\\u1041", "\\u1042", "\\u1043", "\\u1044",
        "\\u1045", "\\u1046", "\\u1047", "\\u1048", "\\u1049">>,
      <<"\\u1090", "\\u1091", "\\u1092", "\\u1093", "\\u1094",
        "\\u1095", "\\u1096", "\\u1097", "\\u1098", "\\u1099">>,
      <<"\\u17e0", "\\u17e1", "\\u17e2", "\\u17e3", "\\u17e4",
        "\\u17e5", "\\u17e6", "\\u17e7", "\\u17e8", "\\u17e9">>,
      <<"\\u1810", "\\u1811", "\\u1812", "\\u1813", "\\u1814",
        "\\u1815", "\\u1816", "\\u1817", "\\u1818", "\\u1819">>,
      <<"\\u1946", "\\u1947", "\\u1948", "\\u1949", "\\u194a",
        "\\u194b", "\\u194c", "\\u194d", "\\u194e", "\\u194f">>,
      <<"\\u19d0", "\\u19d1", "\\u19d2", "\\u19d3", "\\u19d4",
        "\\u19d5", "\\u19d6", "\\u19d7", "\\u19d8", "\\u19d9">>,
      <<"\\u1a80", "\\u1a81", "\\u1a82", "\\u1a83", "\\u1a84",
        "\\u1a85", "\\u1a86", "\\u1a87", "\\u1a88", "\\u1a89">>,
      <<"\\u1a90", "\\u1a91", "\\u1a92", "\\u1a93", "\\u1a94",
        "\\u1a95", "\\u1a96", "\\u1a97", "\\u1a98", "\\u1a99">>,
      <<"\\u1b50", "\\u1b51", "\\u1b52", "\\u1b53", "\\u1b54",
        "\\u1b55", "\\u1b56", "\\u1b57", "\\u1b58", "\\u1b59">>,
      <<"\\u1bb0", "\\u1bb1", "\\u1bb2", "\\u1bb3", "\\u1bb4",
        "\\u1bb5", "\\u1bb6", "\\u1bb7", "\\u1bb8", "\\u1bb9">>,
      <<"\\u1c40", "\\u1c41", "\\u1c42", "\\u1c43", "\\u1c44",
        "\\u1c45", "\\u1c46", "\\u1c47", "\\u1c48", "\\u1c49">>,
      <<"\\u1c50", "\\u1c51", "\\u1c52", "\\u1c53", "\\u1c54",
        "\\u1c55", "\\u1c56", "\\u1c57", "\\u1c58", "\\u1c59">>,
      <<"\\ua620", "\\ua621", "\\ua622", "\\ua623", "\\ua624",
        "\\ua625", "\\ua626", "\\ua627", "\\ua628", "\\ua629">>,
      <<"\\ua8d0", "\\ua8d1", "\\ua8d2", "\\ua8d3", "\\ua8d4",
        "\\ua8d5", "\\ua8d6", "\\ua8d7", "\\ua8d8", "\\ua8d9">>,
      <<"\\ua900", "\\ua901", "\\ua902", "\\ua903", "\\ua904",
        "\\ua905", "\\ua906", "\\ua907", "\\ua908", "\\ua909">>,
      <<"\\ua9d0", "\\ua9d1", "\\ua9d2", "\\ua9d3", "\\ua9d4",
        "\\ua9d5", "\\ua9d6", "\\ua9d7", "\\ua9d8", "\\ua9d9">>,
      <<"\\ua9f0", "\\ua9f1", "\\ua9f2", "\\ua9f3", "\\ua9f4",
        "\\ua9f5", "\\ua9f6", "\\ua9f7", "\\ua9f8", "\\ua9f9">>,
      <<"\\uaa50", "\\uaa51", "\\uaa52", "\\uaa53", "\\uaa54",
        "\\uaa55", "\\uaa56", "\\uaa57", "\\uaa58", "\\uaa59">>,
      <<"\\uabf0", "\\uabf1", "\\uabf2", "\\uabf3", "\\uabf4",
        "\\uabf5", "\\uabf6", "\\uabf7", "\\uabf8", "\\uabf9">>,
      <<"\\uff10", "\\uff11", "\\uff12", "\\uff13", "\\uff14",
        "\\uff15", "\\uff16", "\\uff17", "\\uff18", "\\uff19">>,
      <<"\\U000104a0", "\\U000104a1", "\\U000104a2", "\\U000104a3", "\\U000104a4",
        "\\U000104a5", "\\U000104a6", "\\U000104a7", "\\U000104a8", "\\U000104a9">>,
      <<"\\U00010d30", "\\U00010d31", "\\U00010d32", "\\U00010d33", "\\U00010d34",
        "\\U00010d35", "\\U00010d36", "\\U00010d37", "\\U00010d38", "\\U00010d39">>,
      <<"\\U00011066", "\\U00011067", "\\U00011068", "\\U00011069", "\\U0001106a",
        "\\U0001106b", "\\U0001106c", "\\U0001106d", "\\U0001106e", "\\U0001106f">>,
      <<"\\U000110f0", "\\U000110f1", "\\U000110f2", "\\U000110f3", "\\U000110f4",
        "\\U000110f5", "\\U000110f6", "\\U000110f7", "\\U000110f8", "\\U000110f9">>,
      <<"\\U00011136", "\\U00011137", "\\U00011138", "\\U00011139", "\\U0001113a",
        "\\U0001113b", "\\U0001113c", "\\U0001113d", "\\U0001113e", "\\U0001113f">>,
      <<"\\U000111d0", "\\U000111d1", "\\U000111d2", "\\U000111d3", "\\U000111d4",
        "\\U000111d5", "\\U000111d6", "\\U000111d7", "\\U000111d8", "\\U000111d9">>,
      <<"\\U000112f0", "\\U000112f1", "\\U000112f2", "\\U000112f3", "\\U000112f4",
        "\\U000112f5", "\\U000112f6", "\\U000112f7", "\\U000112f8", "\\U000112f9">>,
      <<"\\U00011450", "\\U00011451", "\\U00011452", "\\U00011453", "\\U00011454",
        "\\U00011455", "\\U00011456", "\\U00011457", "\\U00011458", "\\U00011459">>,
      <<"\\U000114d0", "\\U000114d1", "\\U000114d2", "\\U000114d3", "\\U000114d4",
        "\\U000114d5", "\\U000114d6", "\\U000114d7", "\\U000114d8", "\\U000114d9">>,
      <<"\\U00011650", "\\U00011651", "\\U00011652", "\\U00011653", "\\U00011654",
        "\\U00011655", "\\U00011656", "\\U00011657", "\\U00011658", "\\U00011659">>,
      <<"\\U000116c0", "\\U000116c1", "\\U000116c2", "\\U000116c3", "\\U000116c4",
        "\\U000116c5", "\\U000116c6", "\\U000116c7", "\\U000116c8", "\\U000116c9">>,
      <<"\\U00011730", "\\U00011731", "\\U00011732", "\\U00011733", "\\U00011734",
        "\\U00011735", "\\U00011736", "\\U00011737", "\\U00011738", "\\U00011739">>,
      <<"\\U000118e0", "\\U000118e1", "\\U000118e2", "\\U000118e3", "\\U000118e4",
        "\\U000118e5", "\\U000118e6", "\\U000118e7", "\\U000118e8", "\\U000118e9">>,
      <<"\\U00011950", "\\U00011951", "\\U00011952", "\\U00011953", "\\U00011954",
        "\\U00011955", "\\U00011956", "\\U00011957", "\\U00011958", "\\U00011959">>,
      <<"\\U00011c50", "\\U00011c51", "\\U00011c52", "\\U00011c53", "\\U00011c54",
        "\\U00011c55", "\\U00011c56", "\\U00011c57", "\\U00011c58", "\\U00011c59">>,
      <<"\\U00011d50", "\\U00011d51", "\\U00011d52", "\\U00011d53", "\\U00011d54",
        "\\U00011d55", "\\U00011d56", "\\U00011d57", "\\U00011d58", "\\U00011d59">>,
      <<"\\U00011da0", "\\U00011da1", "\\U00011da2", "\\U00011da3", "\\U00011da4",
        "\\U00011da5", "\\U00011da6", "\\U00011da7", "\\U00011da8", "\\U00011da9">>,
      <<"\\U00016a60", "\\U00016a61", "\\U00016a62", "\\U00016a63", "\\U00016a64",
        "\\U00016a65", "\\U00016a66", "\\U00016a67", "\\U00016a68", "\\U00016a69">>,
      <<"\\U00016ac0", "\\U00016ac1", "\\U00016ac2", "\\U00016ac3", "\\U00016ac4",
        "\\U00016ac5", "\\U00016ac6", "\\U00016ac7", "\\U00016ac8", "\\U00016ac9">>,
      <<"\\U00016b50", "\\U00016b51", "\\U00016b52", "\\U00016b53", "\\U00016b54",
        "\\U00016b55", "\\U00016b56", "\\U00016b57", "\\U00016b58", "\\U00016b59">>,
      <<"\\U0001d7ce", "\\U0001d7cf", "\\U0001d7d0", "\\U0001d7d1", "\\U0001d7d2",
        "\\U0001d7d3", "\\U0001d7d4", "\\U0001d7d5", "\\U0001d7d6", "\\U0001d7d7">>,
      <<"\\U0001d7d8", "\\U0001d7d9", "\\U0001d7da", "\\U0001d7db", "\\U0001d7dc",
        "\\U0001d7dd", "\\U0001d7de", "\\U0001d7df", "\\U0001d7e0", "\\U0001d7e1">>,
      <<"\\U0001d7e2", "\\U0001d7e3", "\\U0001d7e4", "\\U0001d7e5", "\\U0001d7e6",
        "\\U0001d7e7", "\\U0001d7e8", "\\U0001d7e9", "\\U0001d7ea", "\\U0001d7eb">>,
      <<"\\U0001d7ec", "\\U0001d7ed", "\\U0001d7ee", "\\U0001d7ef", "\\U0001d7f0",
        "\\U0001d7f1", "\\U0001d7f2", "\\U0001d7f3", "\\U0001d7f4", "\\U0001d7f5">>,
      <<"\\U0001d7f6", "\\U0001d7f7", "\\U0001d7f8", "\\U0001d7f9", "\\U0001d7fa",
        "\\U0001d7fb", "\\U0001d7fc", "\\U0001d7fd", "\\U0001d7fe", "\\U0001d7ff">>,
      <<"\\U0001e140", "\\U0001e141", "\\U0001e142", "\\U0001e143", "\\U0001e144",
        "\\U0001e145", "\\U0001e146", "\\U0001e147", "\\U0001e148", "\\U0001e149">>,
      <<"\\U0001e2f0", "\\U0001e2f1", "\\U0001e2f2", "\\U0001e2f3", "\\U0001e2f4",
        "\\U0001e2f5", "\\U0001e2f6", "\\U0001e2f7", "\\U0001e2f8", "\\U0001e2f9">>,
      <<"\\U0001e950", "\\U0001e951", "\\U0001e952", "\\U0001e953", "\\U0001e954",
        "\\U0001e955", "\\U0001e956", "\\U0001e957", "\\U0001e958", "\\U0001e959">>,
      <<"\\U0001fbf0", "\\U0001fbf1", "\\U0001fbf2", "\\U0001fbf3", "\\U0001fbf4",
        "\\U0001fbf5", "\\U0001fbf6", "\\U0001fbf7", "\\U0001fbf8", "\\U0001fbf9">>>>

DecimalDigitSet == {DecimalDigits[r][d] : r \in 1..Len(DecimalDigits), d \in 1..10}

\* int(c) of a decimal digit c
DigitValue(c) ==
    IF \E d \in 0..9 : Digits[d + 1] = c
    THEN CHOOSE d \in 0..9 : Digits[d + 1] = c
    ELSE CHOOSE d \in 0..9 : \E r \in 1..Len(DecimalDigits) : DecimalDigits[r][d + 1] = c

\* str(n) of an int n >= 0
RECURSIVE IntToChars(_)
IntToChars(n) ==
    IF n < 10 THEN <<Digits[n + 1]>> ELSE IntToChars(n \div 10) \o <<Digits[(n % 10) + 1]>>

\* int(s) of a string of digits
RECURSIVE CharsToInt(_)
CharsToInt(s) ==
    IF s = <<>> THEN 0
    ELSE CharsToInt(SubSeq(s, 1, Len(s) - 1)) * 10 + DigitValue(Last(s))

\* %m, %d, %H, %M, %S: two digits, zero padded
Pad2(n) == <<Digits[(n \div 10) + 1], Digits[(n % 10) + 1]>>

\* %Y: four digits, zero padded
Pad4(n) == Pad2(n \div 100) \o Pad2(n % 100)

\* \d of the pattern strptime compiles: any decimal digit
IsDigit(c) == c \in DecimalDigitSet

\* a character of a class the pattern spells out, [0-9] between lo and hi
InClass(c, lo, hi) == \E d \in lo..hi : Digits[d + 1] = c

\* the patterns of the directives, on the characters f of one field:
\* %Y (\d\d\d\d), %m (1[0-2]|0[1-9]|[1-9]), %d (3[0-1]|[1-2]\d|0[1-9]|[1-9]| [1-9]),
\* %H (2[0-3]|[0-1]\d|\d), %M ([0-5]\d|\d), %S (6[0-1]|[0-5]\d|\d)
re_Y(f) == Len(f) = 4 /\ \A i \in 1..4 : IsDigit(f[i])

re_m(f) ==
    \/ Len(f) = 2 /\ f[1] = "1" /\ InClass(f[2], 0, 2)
    \/ Len(f) = 2 /\ f[1] = "0" /\ InClass(f[2], 1, 9)
    \/ Len(f) = 1 /\ InClass(f[1], 1, 9)

re_d(f) ==
    \/ Len(f) = 2 /\ f[1] = "3" /\ InClass(f[2], 0, 1)
    \/ Len(f) = 2 /\ InClass(f[1], 1, 2) /\ IsDigit(f[2])
    \/ Len(f) = 2 /\ f[1] = "0" /\ InClass(f[2], 1, 9)
    \/ Len(f) = 1 /\ InClass(f[1], 1, 9)
    \/ Len(f) = 2 /\ f[1] = " " /\ InClass(f[2], 1, 9)

re_H(f) ==
    \/ Len(f) = 2 /\ f[1] = "2" /\ InClass(f[2], 0, 3)
    \/ Len(f) = 2 /\ InClass(f[1], 0, 1) /\ IsDigit(f[2])
    \/ Len(f) = 1 /\ IsDigit(f[1])

re_M(f) ==
    \/ Len(f) = 2 /\ InClass(f[1], 0, 5) /\ IsDigit(f[2])
    \/ Len(f) = 1 /\ IsDigit(f[1])

re_S(f) ==
    \/ Len(f) = 2 /\ f[1] = "6" /\ InClass(f[2], 0, 1)
    \/ Len(f) = 2 /\ InClass(f[1], 0, 5) /\ IsDigit(f[2])
    \/ Len(f) = 1 /\ IsDigit(f[1])

\* index of the last character of the run of digits that starts at i, i - 1 for none
RECURSIVE DigitsEnd(_, _)
DigitsEnd(s, i) == IF i <= Len(s) /\ IsDigit(s[i]) THEN DigitsEnd(s, i + 1) ELSE i - 1

\* calendar.monthrange(y, m)[1]
DaysInMonth(y, m) ==
    IF m = 2
    THEN IF (y % 4 = 0 /\ y % 100 # 0) \/ y % 400 = 0 THEN 29 ELSE 28
    ELSE IF m \in {4, 6, 9, 11} THEN 30 ELSE 31

\* datetime.strptime(s, "%Y-%m-%dT%H:%M:%SZ"): <<year, month, day, hour, minute, second>>,
\* <<>> for ValueError.  The pattern of the format must match all of s, the letters
\* in either case; a field ends where its separator stands, which no digit is; the
\* date must exist and the second be below 60
strptime_fields(s) ==
    LET y_end == DigitsEnd(s, 1)
        m_end == DigitsEnd(s, 6)
        d_start == m_end + 2
        d_end == IF d_start <= Len(s) /\ s[d_start] = " " THEN DigitsEnd(s, d_start + 1)
                 ELSE DigitsEnd(s, d_start)
        h_end == DigitsEnd(s, d_end + 2)
        mi_end == DigitsEnd(s, h_end + 2)
        s_end == DigitsEnd(s, mi_end + 2)
        Chars(a, b) == SubSeq(s, a, b)
        Field(a, b) == CharsToInt(SelectSeq(SubSeq(s, a, b), IsDigit))
        fields == <<Field(1, 4), Field(6, m_end), Field(d_start, d_end),
                    Field(d_end + 2, h_end), Field(h_end + 2, mi_end),
                    Field(mi_end + 2, s_end)>>
        matches ==
            /\ y_end = 4 /\ re_Y(Chars(1, 4))
            /\ Len(s) >= 5 /\ s[5] = "-"
            /\ re_m(Chars(6, m_end))
            /\ Len(s) > m_end /\ s[m_end + 1] = "-"
            /\ re_d(Chars(d_start, d_end))
            /\ Len(s) > d_end /\ s[d_end + 1] \in {"T", "t"}
            /\ re_H(Chars(d_end + 2, h_end))
            /\ Len(s) > h_end /\ s[h_end + 1] = ":"
            /\ re_M(Chars(h_end + 2, mi_end))
            /\ Len(s) > mi_end /\ s[mi_end + 1] = ":"
            /\ re_S(Chars(mi_end + 2, s_end))
            /\ Len(s) = s_end + 1 /\ s[s_end + 1] \in {"Z", "z"}
            /\ fields[1] >= 1
            /\ fields[3] <= DaysInMonth(fields[1], fields[2])
            /\ fields[6] <= 59
    IN  IF matches THEN fields ELSE <<>>

\* int(d.timestamp()) of the naive datetime d of these fields, in a process whose
\* local time is utcoffset seconds ahead of UTC
timestamp_local(fields, utcoffset) ==
    DaysFromCivil(fields[1], fields[2], fields[3]) * 86400
    + fields[4] * 3600 + fields[5] * 60 + fields[6] - utcoffset

\* int(datetime.strptime(s, "%Y-%m-%dT%H:%M:%SZ").timestamp()), for an s that matches
strptime_timestamp(s, utcoffset) == timestamp_local(strptime_fields(s), utcoffset)

\* datetime.utcfromtimestamp(t).strftime('%Y-%m-%dT%H:%M:%SZ')
utc_strftime(t) ==
    LET date == CivilFromDays(t \div 86400)
        secs == t % 86400
    IN  Pad4(date[1]) \o <<"-">> \o Pad2(date[2]) \o <<"-">> \o Pad2(date[3]) \o <<"T">>
        \o Pad2(secs \div 3600) \o <<":">> \o Pad2((secs % 3600) \div 60) \o <<":">>
        \o Pad2(secs % 60) \o <<"Z">>

(***************************************************************************)
(* The environment: configuration, arguments, the whisper store            *)
(***************************************************************************)
\* the UTC offsets of the time zones a run is tried in: UTC, Europe/Berlin and
\* America/New_York in January
TimeZones == {0, 3600, -18000}

\* config['start_date'] of the influx script and datetime(2022, 1, 1) of the csv script
StartDate == <<2022, 1, 1, 0, 0, 0>>

\* both scripts: the start of the window, seconds since the epoch: local midnight
START_TIMESTAMP == timestamp_local(StartDate, tz)

\* config['until_ts_offset']
UNTIL_TS_OFFSET == 600

\* config['influxdb']['target_db']
target_db == "target"

\* data['time'] of the first record the source database holds for an identity
FirstRecordTime ==
    <<"2", "0", "2", "2", "-", "0", "1", "-", "0", "1",
      "T", "0", "1", ":", "0", "0", ":", "0", "0", "Z">>

\* the same time with the year in ARABIC-INDIC digits
OtherDigitsRecordTime ==
    <<"\\u0662", "\\u0660", "\\u0662", "\\u0662", "-", "0", "1", "-", "0", "1",
      "T", "0", "1", ":", "0", "0", ":", "0", "0", "Z">>

\* the time of a record stored with a fraction of a second
FractionRecordTime ==
    <<"2", "0", "2", "2", "-", "0", "1", "-", "0", "1",
      "T", "0", "1", ":", "0", "0", ":", "0", "0", ".", "5", "Z">>

\* args.end_timestamp of the csv script: 2022-01-01T01:00:00Z
args_end_timestamp == 1640998800

\* the archive steps of the store, seconds per point
Steps == {60}

\* a stored value: <<>> is None (a gap), <<v>> the float v; the floats 1.0 and 2.0
NoValue == <<>>
Values == {<<1>>, <<2>>}
ValueSeqs(n) == UNION {[1..k -> Values \cup {NoValue}] : k \in 1..n}

\* what whisper.fetch(path, from_ts, until_ts) may do: raise, return None, or return
\* (timeInfo, values) with timeInfo = (start, end, step), end = start + len(values) * step,
\* the first point after from_ts, every point before until_ts; room is the number of
\* values the files not read yet can hold (the store holds MaxSamples values)
FetchResults(from_ts, until_ts, room) ==
    IF from_ts > until_ts
    THEN {[kind |-> "raise", timeInfo |-> <<>>, values |-> <<>>]}
    ELSE {[kind |-> "raise", timeInfo |-> <<>>, values |-> <<>>],
          [kind |-> "none", timeInfo |-> <<>>, values |-> <<>>]}
         \cup
         {r \in {[kind |-> "data",
                  timeInfo |-> <<from_ts - (from_ts % step) + step,
                                 from_ts - (from_ts % step) + step + Len(v) * step,
                                 step>>,
                  values |-> v] : step \in Steps, v \in ValueSeqs(room)} :
             r.timeInfo[2] - r.timeInfo[3] < until_ts}

\* the number of values of a fetch result that are not None
NonNullCount(data_points) ==
    Cardinality({i \in 1..Len(data_points.values) : data_points.values[i] # NoValue})

\* the index of the first whisper.fetch call on path, 0 when it has not been read
FirstRead(calls, path) ==
    IF \E i \in 1..Len(calls) : calls[i][1] = path
    THEN CHOOSE i \in 1..Len(calls) :
            calls[i][1] = path /\ \A j \in 1..(i - 1) : calls[j][1] # path
    ELSE 0

\* the number of values in the files read so far, each file counted once
ValuesRead(calls, results) ==
    LET first == {i \in 1..Len(calls) : FirstRead(calls, calls[i][1]) = i}
        RECURSIVE Sum(_)
        Sum(S) == IF S = {} THEN 0
                  ELSE LET i == CHOOSE x \in S : TRUE
                       IN  Len(results[i].values) + Sum(S \ {i})
    IN  Sum(first)

\* what whisper.fetch answers for path: a file does not change during a run, so a
\* second read of it answers as the first did
FetchAnswers(calls, results, path, from_ts, until_ts) ==
    IF FirstRead(calls, path) # 0
    THEN {results[FirstRead(calls, path)]}
    ELSE FetchResults(from_ts, until_ts, MaxSamples - ValuesRead(calls, results))

\* a bug: the file taken to be there without a look
os_path_isfile_always(files, path) == TRUE

\* os.path.isfile(path) on the set of files that exist
os_path_isfile(files, path) == path \in files

LogRecord(level, msg, path, detail) ==
    [level |-> level, msg |-> msg, path |-> path, detail |-> detail]

(***************************************************************************)
(* Specification SpecSanitize: sanitize_name applied to a name, then to    *)
(* its own result                                                          *)
(***************************************************************************)
NameChars == {"a", "_", ":", "\\", "/", ".", " ", "\n"}

\* the variables of the two scripts' runs, unused by the pure functions
\* no CSV file named
NoCsv == [kind |-> "none", headers |-> <<>>]

RunIdle ==
    /\ tz = 0
    /\ measurements = <<>>
    /\ csv_file = NoCsv
    /\ wsp_files = {}
    /\ lp_files = <<>>
    /\ simulate = FALSE
    /\ debug = FALSE
    /\ work = <<>>
    /\ idx = 1
    /\ metrics = <<>>
    /\ midx = 0
    /\ metric_info = <<>>
    /\ fetch_calls = <<>>
    /\ fetch_results = <<>>
    /\ emitted = <<>>
    /\ written = <<>>
    /\ log = <<>>
    /\ outcomes = <<>>

RunUnchanged ==
    UNCHANGED <<tz, measurements, csv_file, wsp_files, lp_files, simulate, debug, work, idx, metrics, midx,
                metric_info, fetch_calls, fetch_results, emitted, written, log, outcomes>>

NoIdentity == [hostname |-> <<>>, servicename |-> <<>>, checkcommand |-> <<>>, metric |-> <<>>]

InitSanitize ==
    /\ script = "sanitize"
    /\ status = "running"
    /\ name \in StringsUpTo(NameChars, MaxNameLen)
    /\ allow_slash \in BOOLEAN
    /\ sanitized = None
    /\ resanitized = None
    /\ identity = NoIdentity
    /\ wsp_file_path = None
    /\ RunIdle

Sanitize ==
    /\ script = "sanitize"
    /\ sanitized = None
    /\ sanitized' = sanitize_name(name, allow_slash)
    /\ UNCHANGED <<script, status, name, allow_slash, resanitized, identity, wsp_file_path>>
    /\ RunUnchanged

SanitizeAgain ==
    /\ script = "sanitize"
    /\ sanitized # None
    /\ resanitized = None
    /\ resanitized' = sanitize_name(sanitized, allow_slash)
    /\ status' = "done"
    /\ UNCHANGED <<script, name, allow_slash, sanitized, identity, wsp_file_path>>
    /\ RunUnchanged

NextSanitize == Sanitize \/ SanitizeAgain

SpecSanitize == InitSanitize /\ [][NextSanitize]_vars

(***************************************************************************)
(* C4: sanitize_name collapses runs, and is idempotent                     *)
(***************************************************************************)
\* the positions of n that survive the collapse: every character outside the class
\* and the first character of every maximal run of class characters
KeptPositions(n) ==
    {i \in 1..Len(n) : n[i] \notin SanClass \/ i = 1 \/ n[i - 1] \notin SanClass}

\* n with each maximal run of class characters replaced by exactly one underscore
Collapsed(n) ==
    LET kept == KeptPositions(n)
        nth(j) == CHOOSE i \in kept : Cardinality({x \in kept : x < i}) = j - 1
    IN  [j \in 1..Cardinality(kept) |-> IF n[nth(j)] \in SanClass THEN "_" ELSE n[nth(j)]]

HasColonPair(s) == \E i \in 1..(Len(s) - 1) : s[i] = ":" /\ s[i + 1] = ":"

HasLongRun(s) == \E i \in 1..(Len(s) - 1) : s[i] \in SanClass /\ s[i + 1] \in SanClass

\* the first half of C4: every maximal run of backslash, slash, whitespace or dot
\* characters becomes exactly one underscore (and "::" is then rewritten)
RunsCollapsed ==
    sanitized # None =>
        /\ ~HasColonPair(Collapsed(name)) => sanitized = Collapsed(name)
        /\ Len(sanitized) <= Len(Collapsed(name))
        /\ ~allow_slash => \A i \in 1..Len(sanitized) : sanitized[i] \notin SanClass

\* C4 as claimed: sanitize_name collapses every maximal run of backslash, slash,
\* whitespace or dot characters to one underscore and is idempotent for allow_slash
\* False and True alike.
C4_IdempotentForBothFlags ==
    /\ RunsCollapsed
    /\ resanitized # None => resanitized = sanitized

\* C4 as amended: sanitize_name collapses every maximal run to one underscore; it is
\* idempotent for allow_slash=False, and for allow_slash=True exactly on the names
\* whose collapsed form holds no "::" (the "/" written for "::" is itself rewritten
\* to "_" by a second application).
C4_IdempotentWithoutSlash ==
    /\ RunsCollapsed
    /\ resanitized # None =>
        /\ ~allow_slash => resanitized = sanitized
        /\ allow_slash => (resanitized = sanitized <=> ~HasColonPair(Collapsed(name)))

\* C4's case: a name with a run of two class characters and a "::" has been
\* sanitized twice without allow_slash
C4_Witness ==
    /\ resanitized # None
    /\ ~allow_slash
    /\ HasLongRun(name)
    /\ HasColonPair(name)
    /\ resanitized = sanitized

(***************************************************************************)
(* Specification SpecPath: construct_wsp_file_path of either script        *)
(* applied to an identity                                                  *)
(***************************************************************************)
HostNames == StringsUpTo({"a", ".", ":"}, MaxCompLen)
ServiceNames == StringsUpTo({"s", "."}, MaxCompLen) \cup {HOSTCHECK}
CheckCommands == StringsUpTo({"c", "/"}, MaxCompLen)
MetricNames == StringsUpTo({"m", ":", "/"}, MaxCompLen)

Identities ==
    [hostname : HostNames, servicename : ServiceNames,
     checkcommand : CheckCommands, metric : MetricNames]

InitPath ==
    /\ script \in {"influx", "csv"}
    /\ status = "path"
    /\ name = <<>>
    /\ allow_slash = FALSE
    /\ sanitized = None
    /\ resanitized = None
    /\ identity \in Identities
    /\ wsp_file_path = None
    /\ RunIdle

ConstructPath ==
    /\ status = "path"
    /\ wsp_file_path = None
    /\ wsp_file_path' = construct_wsp_file_path(script, identity)
    /\ UNCHANGED <<script, status, name, allow_slash, sanitized, resanitized, identity>>
    /\ RunUnchanged

NextPath == ConstructPath

SpecPath == InitPath /\ [][NextPath]_vars

(***************************************************************************)
(* C10: construct_wsp_file_path is injective                               *)
(***************************************************************************)
\* the segments of p between its "/" characters
RECURSIVE SplitSlash(_, _)
SplitSlash(p, seg) ==
    IF p = <<>> THEN <<seg>>
    ELSE IF Head(p) = "/" THEN <<seg>> \o SplitSlash(Tail(p), <<>>)
    ELSE SplitSlash(Tail(p), Append(seg, Head(p)))

\* a name sanitization leaves alone, that is not empty and holds no "/"
CleanName(n, slash) ==
    /\ n # <<>>
    /\ sanitize_name(n, slash) = n
    /\ \A i \in 1..Len(n) : n[i] # "/"

CleanIdentity(id) ==
    /\ CleanName(id.hostname, FALSE)
    /\ CleanName(id.servicename, FALSE)
    /\ id.checkcommand # <<>>
    /\ \A i \in 1..Len(id.checkcommand) : id.checkcommand[i] # "/"
    /\ CleanName(id.metric, TRUE)

\* C10 as claimed: two identities that differ in hostname, service name, check
\* command or metric name never derive the same value.wsp path.
C10_PathInjective ==
    wsp_file_path # None =>
        \A other \in Identities :
            other # identity => construct_wsp_file_path(script, other) # wsp_file_path

\* C10 as amended: construct_wsp_file_path is injective on the identities whose
\* hostname, service name and metric name are not empty and are left unchanged by
\* sanitization and whose check command is not empty and holds no "/": each of the
\* four components can be read back from the path.
C10_PathInjectiveOnCleanNames ==
    (wsp_file_path # None /\ CleanIdentity(identity)) =>
        /\ startswith(wsp_file_path, BASE_PATH)
        /\ SplitSlash(SubSeq(wsp_file_path, Len(BASE_PATH) + 1, Len(wsp_file_path)), <<>>)
             = << <<>>,
                  identity.hostname,
                  IF script = "influx" /\ identity.servicename = HOSTCHECK
                  THEN DirHost ELSE DirServices,
                  identity.servicename,
                  identity.checkcommand,
                  DirPerfdata,
                  identity.metric,
                  FileValueWsp >>

\* C10's case: the path of a clean identity has been derived
C10_Witness ==
    /\ wsp_file_path # None
    /\ CleanIdentity(identity)
    /\ Len(identity.hostname) > 1
    /\ identity.servicename = HOSTCHECK

(***************************************************************************)
(* convert_icinga_whisper_to_influx.py: convert_and_write_to_influx        *)
(***************************************************************************)
\* "if unit:"
Truthy(x) == x # None /\ x # <<>>

\* the point dict of one value; fields is a dict, a sequence of (key, value) pairs
build_point(ctx, t, value) ==
    [measurement |-> ctx.checkcommand,
     tags |-> [hostname |-> ctx.hostname, metric |-> ctx.metric, service |-> ctx.servicename],
     time |-> utc_strftime(t),
     fields |-> IF Truthy(ctx.unit)
                THEN << <<"value", value[1]>>, <<"unit", ctx.unit>> >>
                ELSE << <<"value", value[1]>> >>]

\* a bug: the point written although simulate is set
write_ignoring_simulate(acc, point, ctx) ==
    IF acc.calls + 1 = ctx.fail_at
    THEN [acc EXCEPT !.calls = @ + 1, !.raised = TRUE]
    ELSE [acc EXCEPT
            !.calls = @ + 1,
            !.written = Append(@, [points |-> <<point>>, database |-> target_db]),
            !.log = IF ctx.debug
                    THEN Append(@, LogRecord("info", "Written", ctx.wsp_path, point))
                    ELSE @]

\* "if simulate: ... else: influx_client.write_points([point], database=target_db) ..."
\* write_points raises on the call numbered ctx.fail_at of this conversion
write_or_simulate(acc, point, ctx) ==
    IF ctx.simulate
    THEN [acc EXCEPT
            !.log = IF ctx.debug
                    THEN Append(@, LogRecord("info", "Simulated write", ctx.wsp_path, point))
                    ELSE @]
    ELSE IF acc.calls + 1 = ctx.fail_at
    THEN [acc EXCEPT !.calls = @ + 1, !.raised = TRUE]
    ELSE [acc EXCEPT
            !.calls = @ + 1,
            !.written = Append(@, [points |-> <<point>>, database |-> target_db]),
            !.log = IF ctx.debug
                    THEN Append(@, LogRecord("info", "Written", ctx.wsp_path, point))
                    ELSE @]

\* one pass of "for value in values:"
loop_body(acc, value, step, ctx) ==
    IF value = NoValue
    THEN [acc EXCEPT !.points_skipped = @ + 1]
    ELSE LET point == build_point(ctx, acc.t, value)
             after == write_or_simulate([acc EXCEPT !.emitted = Append(@, point)], point, ctx)
         IN  IF after.raised THEN after
             ELSE [after EXCEPT !.t = @ + step, !.points_written = @ + 1]

RECURSIVE for_values(_, _, _, _)
for_values(acc, values, step, ctx) ==
    IF values = <<>> \/ acc.raised THEN acc
    ELSE for_values(loop_body(acc, Head(values), step, ctx), Tail(values), step, ctx)

\* convert_and_write_to_influx once whisper.fetch has answered with data_points:
\* [emitted, written, log, outcome], the records it adds
convert_and_write_to_influx(ctx, data_points) ==
    IF data_points.kind = "raise"
    THEN [emitted |-> <<>>, written |-> <<>>, outcome |-> "read_failed",
          log |-> <<LogRecord("error", "Failed to read from Whisper file", ctx.wsp_path,
                              "whisper.fetch raised")>>]
    ELSE IF data_points.kind = "none"
    THEN [emitted |-> <<>>, written |-> <<>>, outcome |-> "no_data",
          log |-> <<LogRecord("warning", "No data points found", ctx.wsp_path, <<>>)>>]
    ELSE LET start == data_points.timeInfo[1]
             step == data_points.timeInfo[3]
             acc == for_values([t |-> start, points_written |-> 0, points_skipped |-> 0,
                                emitted |-> <<>>, written |-> <<>>, log |-> <<>>,
                                calls |-> 0, raised |-> FALSE],
                               data_points.values, step, ctx)
         IN  IF acc.raised
             THEN [emitted |-> acc.emitted, written |-> acc.written,
                   outcome |-> "write_failed",
                   log |-> Append(acc.log,
                                  LogRecord("error", "Failed to read from Whisper file",
                                            ctx.wsp_path, "write_points raised"))]
             ELSE [emitted |-> acc.emitted, written |-> acc.written,
                   outcome |-> "converted",
                   log |-> Append(acc.log,
                                  LogRecord("info", "Processed", ctx.wsp_path,
                                            [written |-> acc.points_written,
                                             skipped |-> acc.points_skipped,
                                             mode |-> IF ctx.simulate THEN "simulated"
                                                      ELSE "written",
                                             from |-> START_TIMESTAMP,
                                             to |-> ctx.end_timestamp]))]

(***************************************************************************)
(* convert_icinga_whisper_to_influx.py: the main loop                      *)
(***************************************************************************)
Str_host1 == <<"h", "o", "s", "t", "1">>
Str_svc1 == <<"s", "v", "c", "1">>
Str_check1 == <<"c", "h", "e", "c", "k", "1">>
Str_m_1 == <<"m", " ", "1">>
Str_m2 == <<"m", "2">>
Str_ms == <<"m", "s">>

\* the (measurement, group key, first record) items the source database answers with:
\* a service check with a unit, a host check (no service tag, no unit), an item
\* without hostname or without metric, and an item whose first record has a time with
\* a fraction of a second; an absent tag is the empty string
Points ==
    {[measurement_name |-> Str_check1, hostname |-> Str_host1, service |-> Str_svc1,
      metric |-> Str_m_1, time |-> FirstRecordTime, unit |-> Str_ms],
     [measurement_name |-> Str_check1, hostname |-> Str_host1, service |-> <<>>,
      metric |-> Str_m_1, time |-> FirstRecordTime, unit |-> None],
     [measurement_name |-> Str_check1, hostname |-> <<>>, service |-> Str_svc1,
      metric |-> Str_m_1, time |-> FirstRecordTime, unit |-> None],
     [measurement_name |-> Str_check1, hostname |-> Str_host1, service |-> Str_svc1,
      metric |-> <<>>, time |-> FirstRecordTime, unit |-> None],
     [measurement_name |-> Str_check1, hostname |-> Str_host1, service |-> Str_svc1,
      metric |-> Str_m_1, time |-> FractionRecordTime, unit |-> None]}

\* the service check with its time written in other digits
OtherDigitsPoint ==
    [measurement_name |-> Str_check1, hostname |-> Str_host1, service |-> Str_svc1,
     metric |-> Str_m_1, time |-> OtherDigitsRecordTime, unit |-> Str_ms]

\* the value.wsp files a run of the influx script can look for
InfluxPaths ==
    {construct_wsp_file_path_influx(config_base_path, Str_host1, sv, Str_check1, Str_m_1) :
        sv \in {Str_svc1, HOSTCHECK}}

PureIdle ==
    /\ name = <<>>
    /\ allow_slash = FALSE
    /\ sanitized = None
    /\ resanitized = None
    /\ identity = NoIdentity
    /\ wsp_file_path = None

PureUnchanged ==
    UNCHANGED <<name, allow_slash, sanitized, resanitized, identity, wsp_file_path, tz,
                measurements, csv_file>>

\* the script started: arguments parsed, nothing logged yet.  The source database
\* holds no measurement, or the one measurement check1 with the items work; runs
\* outside UTC, and the item with its time in other digits, are tried with one item
InitLive ==
    /\ script = "influx"
    /\ status = "start"
    /\ tz \in TimeZones
    /\ csv_file = NoCsv
    /\ PureIdle
    /\ wsp_files \in SUBSET InfluxPaths
    /\ lp_files = <<>>
    /\ simulate \in BOOLEAN
    /\ debug \in BOOLEAN
    /\ \/ /\ measurements = <<>>
          /\ work = <<>>
       \/ /\ measurements = <<Str_check1>>
          /\ work \in UNION {[1..n -> Points] : n \in 0..(IF tz = 0 THEN MaxItems ELSE 1)}
                      \cup {<<OtherDigitsPoint>>}
    /\ idx = 1
    /\ metrics = <<>>
    /\ midx = 0
    /\ metric_info = <<>>
    /\ fetch_calls = <<>>
    /\ fetch_results = <<>>
    /\ emitted = <<>>
    /\ written = <<>>
    /\ log = <<>>
    /\ outcomes = <<>>

\* the configuration loaded, the client made, the measurements listed
Connect ==
    /\ script = "influx"
    /\ status = "start"
    /\ log' = log \o <<LogRecord("info", "Configuration loaded successfully", <<>>, <<>>),
                        LogRecord("info", "Connected to InfluxDB", <<>>, <<>>),
                        LogRecord("info", "Found measurements", <<>>, Len(measurements))>>
    /\ status' = "connected"
    /\ UNCHANGED <<script, wsp_files, lp_files, simulate, debug, work, idx, metrics, midx,
                   metric_info, fetch_calls, fetch_results, emitted, written, outcomes>>
    /\ PureUnchanged

\* "for measurement in measurements:" up to the inner loop: the measurement queried
\* for its metrics
BeginMeasurement ==
    /\ script = "influx"
    /\ status = "connected"
    /\ measurements # <<>>
    /\ log' = log \o <<LogRecord("info", "Processing measurement", <<>>, measurements[1]),
                        LogRecord("info", "Found metrics in measurement", <<>>,
                                  <<Len(work), measurements[1]>>)>>
    /\ status' = "running"
    /\ UNCHANGED <<script, wsp_files, lp_files, simulate, debug, work, idx, metrics, midx,
                   metric_info, fetch_calls, fetch_results, emitted, written, outcomes>>
    /\ PureUnchanged

\* "for point in result.items():" one pass, for the point work[idx]
ProcessPoint ==
    /\ script = "influx"
    /\ status = "running"
    /\ idx <= Len(work)
    /\ LET point == work[idx]
           measurement_name == point.measurement_name
           hostname == point.hostname
           servicename == IF point.service = <<>> THEN HOSTCHECK ELSE point.service
           metric == point.metric
       IN  IF hostname = <<>> \/ metric = <<>>
           THEN /\ log' = Append(log, LogRecord("error", "Missing required tags", <<>>,
                                                measurement_name))
                /\ status' = "exit"
                /\ UNCHANGED <<idx, fetch_calls, fetch_results, emitted, written, outcomes>>
           ELSE IF strptime_fields(point.time) = <<>>
           THEN \* ValueError of strptime, caught nowhere
                /\ status' = "crash"
                /\ UNCHANGED <<idx, fetch_calls, fetch_results, emitted, written, outcomes,
                               log>>
           ELSE \E end_timestamp \in {strptime_timestamp(point.time, tz) - UNTIL_TS_OFFSET},
                   path \in {construct_wsp_file_path_influx(config_base_path, hostname,
                                 servicename, measurement_name, metric)} :
                IF os_path_isfile(wsp_files, path)
                THEN \E data_points \in FetchAnswers(fetch_calls, fetch_results, path,
                                                    START_TIMESTAMP, end_timestamp) :
                     \E fail_at \in IF simulate THEN {0} ELSE 0..NonNullCount(data_points) :
                     \E r \in {convert_and_write_to_influx(
                                 [wsp_path |-> path, hostname |-> hostname,
                                  servicename |-> servicename,
                                  checkcommand |-> measurement_name, metric |-> metric,
                                  end_timestamp |-> end_timestamp, simulate |-> simulate,
                                  debug |-> debug, unit |-> point.unit,
                                  fail_at |-> fail_at],
                                 data_points)} :
                        /\ fetch_calls' = Append(fetch_calls,
                                                 <<path, START_TIMESTAMP, end_timestamp>>)
                        /\ fetch_results' = Append(fetch_results, data_points)
                        /\ emitted' = r.emitted
                        /\ written' = written \o r.written
                        /\ log' = Append(log, LogRecord("info", "Processing WSP file",
                                                        path, <<>>)) \o r.log
                        /\ outcomes' = Append(outcomes, r.outcome)
                        /\ idx' = idx + 1
                        /\ UNCHANGED status
                ELSE /\ log' = Append(log, LogRecord("warning", "No 'value.wsp' file found",
                                                     path, metric))
                     /\ outcomes' = Append(outcomes, "missing")
                     /\ emitted' = <<>>
                     /\ idx' = idx + 1
                     /\ UNCHANGED <<status, fetch_calls, fetch_results, written>>
    /\ UNCHANGED <<script, wsp_files, lp_files, simulate, debug, work, metrics, midx,
                   metric_info>>
    /\ PureUnchanged

\* the loop over work is over, or there is no measurement to loop over: the script ends
Finish ==
    /\ script \in {"influx", "csv"}
    /\ \/ status = "running" /\ idx > Len(work)
       \/ script = "influx" /\ status = "connected" /\ measurements = <<>>
    /\ status' = "done"
    /\ UNCHANGED <<script, wsp_files, lp_files, simulate, debug, work, idx, metrics, midx,
                   metric_info, fetch_calls, fetch_results, emitted, written, log, outcomes>>
    /\ PureUnchanged

NextLive == Connect \/ BeginMeasurement \/ ProcessPoint \/ Finish

SpecLive == InitLive /\ [][NextLive]_vars

(***************************************************************************)
(* csv_based_whisper_to_lp.py: convert_to_line_protocol, save_line_protocol *)
(***************************************************************************)
\* f"{value}" of a float with a whole value: 1.0 is "1.0"
float_str(value) == IntToChars(value[1]) \o <<".", "0">>

\* f"{checkcommand},hostname={hostname},metric={original_metric_name},service={servicename} "
\* f"value={value} {timestamp}\n"
line_protocol(ctx, value, timestamp) ==
    ctx.checkcommand \o <<",", "h", "o", "s", "t", "n", "a", "m", "e", "=">> \o ctx.hostname
    \o <<",", "m", "e", "t", "r", "i", "c", "=">> \o ctx.metric
    \o <<",", "s", "e", "r", "v", "i", "c", "e", "=">> \o ctx.servicename
    \o <<" ", "v", "a", "l", "u", "e", "=">> \o float_str(value)
    \o <<" ">> \o IntToChars(timestamp) \o <<"\n">>

\* zip(data_points[0], values): the pairs of the three-element time descriptor
\* (start, end, step) and the values, as many as the shorter of the two
zip_timeinfo_values(timeInfo, values) ==
    [i \in 1..(IF Len(values) < Len(timeInfo) THEN Len(values) ELSE Len(timeInfo))
        |-> <<timeInfo[i], values[i]>>]

\* "for timestamp, value in zip(...)": the lines appended, in order
RECURSIVE lines_of(_, _)
lines_of(pairs, ctx) ==
    IF pairs = <<>> THEN <<>>
    ELSE IF Head(pairs)[2] = NoValue THEN lines_of(Tail(pairs), ctx)
    ELSE <<line_protocol(ctx, Head(pairs)[2], Head(pairs)[1])>> \o lines_of(Tail(pairs), ctx)

\* convert_to_line_protocol once whisper.fetch has answered with data_points:
\* [data, emitted, log, outcome]; data is the returned text, None for return None
convert_to_line_protocol(ctx, data_points) ==
    IF data_points.kind = "raise"
    THEN [data |-> None, emitted |-> <<>>, outcome |-> "read_failed",
          log |-> <<LogRecord("error", "Failed to read from Whisper file", ctx.wsp_path,
                              "whisper.fetch raised")>>]
    ELSE IF data_points.kind = "none"
    THEN [data |-> None, emitted |-> <<>>, outcome |-> "no_data",
          log |-> <<LogRecord("warning", "No data points found", ctx.wsp_path, <<>>)>>]
    ELSE LET line_protocol_data ==
                 lines_of(zip_timeinfo_values(data_points.timeInfo, data_points.values), ctx)
         IN  [data |-> Concat(line_protocol_data), emitted |-> line_protocol_data,
              outcome |-> "converted", log |-> <<>>]

\* os.path.join(os.path.dirname(wsp_path), "value.lp.gz")
lp_gz_path_of(wsp_path) == path_join(<<path_dirname(wsp_path), FileValueLpGz>>)

\* the files with the file at path holding text
FileWritten(files, path, text) ==
    [f \in DOMAIN files \cup {path} |-> IF f = path THEN text ELSE files[f]]

\* a bug: no look at whether value.lp.gz is there already
save_line_protocol_overwrites(files, wsp_path, line_protocol_data, io) ==
    LET lp_gz_path == lp_gz_path_of(wsp_path)
    IN  IF io = "ok"
        THEN [files |-> FileWritten(files, lp_gz_path, line_protocol_data), raised |-> None,
              log |-> <<LogRecord("info", "Converted to line protocol and saved", wsp_path,
                                  lp_gz_path)>>]
        ELSE IF io = "write_error"
        THEN [files |-> FileWritten(files, lp_gz_path, <<>>), raised |-> "OSError",
              log |-> <<>>]
        ELSE [files |-> files, raised |-> io, log |-> <<>>]

\* save_line_protocol on the value.lp.gz files; io is what the file system does to
\* gzip.open and write: "ok"; "PermissionError" or "FileNotFoundError" raised by the
\* open, no file made; "write_error", OSError raised by the write, the file left
\* without text.  [files, raised, log]
save_line_protocol(files, wsp_path, line_protocol_data, io) ==
    LET lp_gz_path == lp_gz_path_of(wsp_path)
    IN  IF os_path_isfile(DOMAIN files, lp_gz_path)
        THEN [files |-> files, raised |-> None,
              log |-> <<LogRecord("info", "already exists. Skipping conversion", wsp_path,
                                  lp_gz_path)>>]
        ELSE IF io = "ok"
        THEN [files |-> FileWritten(files, lp_gz_path, line_protocol_data), raised |-> None,
              log |-> <<LogRecord("info", "Converted to line protocol and saved", wsp_path,
                                  lp_gz_path)>>]
        ELSE IF io = "write_error"
        THEN [files |-> FileWritten(files, lp_gz_path, <<>>), raised |-> "OSError",
              log |-> <<>>]
        ELSE [files |-> files, raised |-> io, log |-> <<>>]

\* a bug: every exception of the save swallowed, the loop going on
status_after_save_swallowed(raised) == "running"

\* where an exception raised by save_line_protocol leaves the script: the main loop
\* catches FileNotFoundError alone (and exits); anything else is not caught
status_after_save(raised) ==
    IF raised = None THEN "running"
    ELSE IF raised = "FileNotFoundError" THEN "exit"
    ELSE "crash"

IoOutcomes == {"ok", "PermissionError", "FileNotFoundError", "write_error"}

(***************************************************************************)
(* csv_based_whisper_to_lp.py: the main loop                               *)
(***************************************************************************)
\* the performance data of the end-to-end scenario: 'm 1'=5;m2=10
Perf_semicolon == <<"'", "m", " ", "1", "'", "=", "5", ";", "m", "2", "=", "1", "0">>
\* the same two tokens separated by a blank: 'm 1'=5 m2=10
Perf_blank == <<"'", "m", " ", "1", "'", "=", "5", " ", "m", "2", "=", "1", "0">>

PerfSamples == {Perf_semicolon, Perf_blank}

\* the characters of the enumerated performance-data strings
PerfChars == {"m", "'", "=", " ", ";", "\n"}

Rows(perfs) ==
    [hostname : {Str_host1}, servicename : {Str_svc1}, checkcommand : {Str_check1},
     perf_data : perfs]

CsvPath(metric) == construct_wsp_file_path_csv(Str_host1, Str_svc1, Str_check1, metric)

\* a value.lp.gz an earlier run left behind
PreviousExport ==
    line_protocol([checkcommand |-> Str_check1, hostname |-> Str_host1, metric |-> Str_m_1,
                   servicename |-> Str_svc1], <<1>>, args_end_timestamp - 60)

\* the header the script expects, and the first lines a CSV file may have: the
\* header, the header and one more column, another header, a blank line
ExpectedHeader == <<"host.name", "name", "checkcommand_name", "state.performance_data">>

Headers ==
    {ExpectedHeader,
     Append(ExpectedHeader, "state.output"),
     <<"host", "name", "checkcommand_name", "state.performance_data">>,
     <<>>}

\* a CSV file with a header line and rows behind it
CsvWithHeader(headers) == [kind |-> "rows", headers |-> headers]

\* the args.csv that cannot be processed: no such file, a file without any line, a file
\* with another header
UnusableCsvFiles ==
    {[kind |-> "missing", headers |-> <<>>], [kind |-> "empty", headers |-> <<>>]}
    \cup {CsvWithHeader(h) : h \in Headers \ {ExpectedHeader, Append(ExpectedHeader, "state.output")}}

\* the script started: arguments parsed, nothing logged yet
InitCsvRun ==
    /\ script = "csv"
    /\ status = "start"
    /\ measurements = <<>>
    /\ PureIdle
    /\ simulate = FALSE
    /\ debug = FALSE
    /\ idx = 1
    /\ metrics = <<>>
    /\ midx = 0
    /\ metric_info = <<>>
    /\ fetch_calls = <<>>
    /\ fetch_results = <<>>
    /\ emitted = <<>>
    /\ written = <<>>
    /\ log = <<>>
    /\ outcomes = <<>>

\* a CSV file of up to MaxItems rows of the two sample performance-data strings; runs
\* outside UTC, with a header of five columns or with a file that cannot be
\* processed are tried with one row
InitCsv ==
    /\ InitCsvRun
    /\ \/ /\ tz \in TimeZones
          /\ csv_file \in {CsvWithHeader(ExpectedHeader),
                            CsvWithHeader(Append(ExpectedHeader, "state.output"))}
          /\ work \in UNION {[1..n -> Rows(PerfSamples)] :
                                n \in 0..(IF tz = 0 /\ Len(csv_file.headers) = 4
                                          THEN MaxItems ELSE 1)}
          /\ wsp_files \in SUBSET {CsvPath(Str_m_1), CsvPath(Str_m2)}
          /\ lp_files \in {<<>>, FileWritten(<<>>, lp_gz_path_of(CsvPath(Str_m_1)),
                                              PreviousExport)}
       \/ /\ tz = 0
          /\ csv_file \in UnusableCsvFiles
          /\ work \in UNION {[1..n -> Rows(PerfSamples)] :
                                n \in 0..(IF csv_file.kind = "rows" THEN 1 ELSE 0)}
          /\ wsp_files \in SUBSET {CsvPath(Str_m_1)}
          /\ lp_files = <<>>

\* a CSV file of one row, of any performance-data string up to MaxPerfLen characters
InitParse ==
    /\ InitCsvRun
    /\ tz = 0
    /\ csv_file = CsvWithHeader(ExpectedHeader)
    /\ \/ /\ work \in [1..1 -> Rows(StringsUpTo(PerfChars, MaxPerfLen))]
          /\ wsp_files = {}
       \/ /\ work \in [1..1 -> Rows(PerfSamples)]
          /\ wsp_files \in SUBSET {CsvPath(Str_m_1), CsvPath(Str_m2)}
    /\ lp_files = <<>>

\* "with open(args.csv, ...)" up to the loop: the file opened, its first line read
\* and compared
OpenCsv ==
    /\ script = "csv"
    /\ status = "start"
    /\ IF csv_file.kind = "missing"
       THEN \* FileNotFoundError of open, caught by the handler at the end
            /\ log' = Append(log, LogRecord("error", "CSV file not found", <<>>, <<>>))
            /\ status' = "exit"
       ELSE IF csv_file.kind = "empty"
       THEN \* StopIteration of next(reader), caught nowhere
            /\ status' = "crash"
            /\ UNCHANGED log
       ELSE IF SubSeq(csv_file.headers, 1,
                      IF Len(csv_file.headers) < 4 THEN Len(csv_file.headers) ELSE 4)
               # ExpectedHeader
       THEN /\ log' = Append(log, LogRecord("error", "CSV header is incorrect", <<>>, <<>>))
            /\ status' = "exit"
       ELSE /\ status' = "running"
            /\ UNCHANGED log
    /\ UNCHANGED <<script, wsp_files, lp_files, simulate, debug, work, idx, metrics, midx,
                   metric_info, fetch_calls, fetch_results, emitted, written, outcomes>>
    /\ PureUnchanged

\* "for row in reader:" up to the inner loop: the row unpacked, its metrics parsed
ReadRow ==
    /\ script = "csv"
    /\ status = "running"
    /\ idx <= Len(work)
    /\ midx = 0
    /\ metrics' = parse_performance_data(work[idx].perf_data)
    /\ midx' = 1
    /\ metric_info' = <<>>
    /\ UNCHANGED <<script, status, wsp_files, lp_files, simulate, debug, work, idx,
                   fetch_calls, fetch_results, emitted, written, log, outcomes>>
    /\ PureUnchanged

\* "for original_metric_name, sanitized_metric_name in metrics.items():" one pass
ProcessMetric ==
    /\ script = "csv"
    /\ status = "running"
    /\ idx <= Len(work)
    /\ midx > 0
    /\ midx <= Len(metrics)
    /\ LET row == work[idx]
           original_metric_name == metrics[midx][1]
           sanitized_metric_name == metrics[midx][2]
       IN  \E path \in {construct_wsp_file_path_csv(row.hostname, row.servicename,
                                                    row.checkcommand, original_metric_name)} :
           IF os_path_isfile(wsp_files, path)
           THEN \E data_points \in FetchAnswers(fetch_calls, fetch_results, path,
                                               START_TIMESTAMP, args_end_timestamp) :
                \E c \in {convert_to_line_protocol(
                            [wsp_path |-> path, hostname |-> row.hostname,
                             servicename |-> row.servicename,
                             checkcommand |-> row.checkcommand,
                             metric |-> original_metric_name],
                            data_points)} :
                   /\ fetch_calls' = Append(fetch_calls,
                                            <<path, START_TIMESTAMP, args_end_timestamp>>)
                   /\ fetch_results' = Append(fetch_results, data_points)
                   /\ emitted' = c.emitted
                   /\ IF Truthy(c.data)
                      THEN \E io \in IF os_path_isfile(DOMAIN lp_files, lp_gz_path_of(path))
                                     THEN {"ok"} ELSE IoOutcomes :
                           \E sv \in {save_line_protocol(lp_files, path, c.data, io)} :
                              /\ lp_files' = sv.files
                              /\ log' = log \o c.log \o sv.log
                                        \o (IF sv.raised = "FileNotFoundError"
                                            THEN <<LogRecord("error", "CSV file not found",
                                                             <<>>, <<>>)>>
                                            ELSE <<>>)
                              /\ status' = status_after_save(sv.raised)
                              /\ outcomes' = Append(outcomes,
                                                    IF sv.raised # None THEN "write_failed"
                                                    ELSE IF lp_files' = lp_files
                                                    THEN "already_exists"
                                                    ELSE "converted")
                              /\ metric_info' = IF sv.raised = None
                                                THEN Append(metric_info,
                                                            original_metric_name
                                                            \o <<" ", "(", "c", "o", "n", "v", "e", "r", "t", "e", "d", ")">>)
                                                ELSE metric_info
                              /\ midx' = IF sv.raised = None THEN midx + 1 ELSE midx
                      ELSE /\ log' = log \o c.log
                           /\ outcomes' = Append(outcomes, IF c.data = None THEN c.outcome
                                                           ELSE "empty")
                           /\ midx' = midx + 1
                           /\ UNCHANGED <<lp_files, status, metric_info>>
           ELSE /\ log' = Append(log, LogRecord("warning", "No 'value.wsp' file found",
                                                path, <<original_metric_name,
                                                        sanitized_metric_name>>))
                /\ metric_info' = Append(metric_info,
                                         original_metric_name \o <<" ", "(", "m", "i", "s", "s", "i", "n", "g", ")">>)
                /\ outcomes' = Append(outcomes, "missing")
                /\ emitted' = <<>>
                /\ midx' = midx + 1
                /\ UNCHANGED <<lp_files, status, fetch_calls, fetch_results>>
    /\ UNCHANGED <<script, wsp_files, simulate, debug, work, idx, metrics, written>>
    /\ PureUnchanged

\* the end of one pass of "for row in reader:": the row's summary logged
LogRow ==
    /\ script = "csv"
    /\ status = "running"
    /\ idx <= Len(work)
    /\ midx > 0
    /\ midx > Len(metrics)
    /\ log' = Append(log, LogRecord("info", "Processed row", <<>>, metric_info))
    /\ idx' = idx + 1
    /\ metrics' = <<>>
    /\ midx' = 0
    /\ UNCHANGED <<script, status, wsp_files, lp_files, simulate, debug, work,
                   metric_info, fetch_calls, fetch_results, emitted, written, outcomes>>
    /\ PureUnchanged

NextCsv == OpenCsv \/ ReadRow \/ ProcessMetric \/ LogRow \/ Finish

SpecCsv == (InitCsv \/ InitParse) /\ [][NextCsv]_vars

(***************************************************************************)
(* Specification Spec: a run of either script                              *)
(***************************************************************************)
Init == InitLive \/ InitCsv

Next ==
    \/ Connect
    \/ BeginMeasurement
    \/ ProcessPoint
    \/ OpenCsv
    \/ ReadRow
    \/ ProcessMetric
    \/ LogRow
    \/ Finish

Spec == Init /\ [][Next]_vars

(***************************************************************************)
(* The samples of a fetch result, and what each script made of them        *)
(***************************************************************************)
\* the last identity processed ended with this outcome
LastOutcomeIs(o) == outcomes # <<>> /\ Last(outcomes) = o

\* the samples whisper stores: the value at 0-based index i, when it is not None,
\* belongs to the timestamp start + i*step
RECURSIVE SamplesFrom(_, _)
SamplesFrom(data_points, i) ==
    IF i > Len(data_points.values) THEN <<>>
    ELSE (IF data_points.values[i] = NoValue THEN <<>>
          ELSE << <<data_points.timeInfo[1] + (i - 1) * data_points.timeInfo[3],
                    data_points.values[i]>> >>)
         \o SamplesFrom(data_points, i + 1)

SamplesOf(data_points) == SamplesFrom(data_points, 1)

\* the (timestamp, value) pairs of the points the live script built, their time
\* read as the UTC time it is
PointSamples(points) ==
    [i \in 1..Len(points) |->
        <<strptime_timestamp(points[i].time, 0), <<points[i].fields[1][2]>> >>]

\* the Unix timestamp at the end of a line of line protocol
LineTimestamp(line) ==
    LET blank == CHOOSE k \in 1..Len(line) :
                    line[k] = " " /\ \A j \in (k + 1)..Len(line) : line[j] # " "
    IN  CharsToInt(SubSeq(line, blank + 1, Len(line) - 1))

\* the identity the CSV script converted last, while its row is still being processed
LastCsvContext ==
    [checkcommand |-> work[idx].checkcommand, hostname |-> work[idx].hostname,
     servicename |-> work[idx].servicename, metric |-> metrics[midx - 1][1]]

\* the text with one line per sample
SampleLines(ctx, samples) ==
    Concat([i \in 1..Len(samples) |-> line_protocol(ctx, samples[i][2], samples[i][1])])

(***************************************************************************)
(* C1                                                                      *)
(***************************************************************************)
\* C1: in the live script, the records built from a fetch result are exactly its
\* non-None values, the value at index i with the timestamp start + i*step
C1_RecordTimestamps ==
    (script = "influx" /\ LastOutcomeIs("converted"))
        => PointSamples(emitted) = SamplesOf(Last(fetch_results))

(***************************************************************************)
(* C2                                                                      *)
(***************************************************************************)
\* C2: in the CSV script, the text written to value.lp.gz has exactly one line per
\* non-None value of the fetch result, each line in the line-protocol form and ending
\* with that sample's own timestamp
C2_OneLinePerSample ==
    (script = "csv" /\ midx > 1 /\ LastOutcomeIs("converted"))
        => lp_files[lp_gz_path_of(Last(fetch_calls)[1])]
             = SampleLines(LastCsvContext, SamplesOf(Last(fetch_results)))

(***************************************************************************)
(* C3                                                                      *)
(***************************************************************************)
\* the timestamps of the records of the last conversion
EmittedTimestamps ==
    {IF script = "influx" THEN strptime_timestamp(emitted[i].time, 0)
     ELSE LineTimestamp(emitted[i]) : i \in 1..Len(emitted)}

\* C3: in either script, every record of a conversion has a timestamp t with
\* from <= t < until, the bounds whisper.fetch was called with for that identity
C3_TimestampsInWindow ==
    emitted # <<>>
        => \A t \in EmittedTimestamps :
              Last(fetch_calls)[2] <= t /\ t < Last(fetch_calls)[3]

\* C3 holds of the live script taken alone
C3_LiveTimestampsInWindow == script = "influx" => C3_TimestampsInWindow

(***************************************************************************)
(* C5                                                                      *)
(***************************************************************************)
\* C5: once a value.lp.gz exists, no later step of the CSV script writes it: the file
\* stays, with the content it had
C5_ExistingExportUntouched ==
    [][\A f \in DOMAIN lp_files : f \in DOMAIN lp_files' /\ lp_files'[f] = lp_files[f]]_vars

\* an identity converted again, to a text other than the one its value.lp.gz holds,
\* and skipped as already existing
C5_Witness ==
    /\ script = "csv"
    /\ midx > 1
    /\ LastOutcomeIs("already_exists")
    /\ emitted # <<>>
    /\ lp_files[lp_gz_path_of(Last(fetch_calls)[1])] # Concat(emitted)

(***************************************************************************)
(* C6                                                                      *)
(***************************************************************************)
\* the summary record of the last conversion that ran to its end
LastSummary ==
    log[CHOOSE k \in 1..Len(log) :
            /\ log[k].msg = "Processed"
            /\ \A j \in (k + 1)..Len(log) : log[j].msg # "Processed"]

\* C6: with --simulate the live script never calls write_points, with or without
\* --debug; a converted identity still has one point built per non-None value, its
\* summary counts them as simulated, and with --debug each is logged as a simulated
\* write
C6_SimulateNeverWrites ==
    (script = "influx" /\ simulate)
        => /\ written = <<>>
           /\ LastOutcomeIs("converted")
                => LET data_points == Last(fetch_results)
                       path == Last(fetch_calls)[1]
                   IN  /\ Len(emitted) = NonNullCount(data_points)
                       /\ LastSummary.path = path
                       /\ LastSummary.detail.mode = "simulated"
                       /\ LastSummary.detail.written = NonNullCount(data_points)
                       /\ LastSummary.detail.skipped
                            = Len(data_points.values) - NonNullCount(data_points)
                       /\ debug => \A i \in 1..Len(emitted) :
                                      \E k \in 1..Len(log) :
                                         log[k] = LogRecord("info", "Simulated write", path,
                                                            emitted[i])
                       /\ ~debug => \A k \in 1..Len(log) : log[k].msg # "Simulated write"

\* a simulated run with --debug that converted an identity of two or more values
C6_Witness ==
    /\ script = "influx"
    /\ simulate
    /\ debug
    /\ LastOutcomeIs("converted")
    /\ Len(emitted) >= 2
    /\ written = <<>>

(***************************************************************************)
(* C7                                                                      *)
(***************************************************************************)
\* the step that ends an identity with a failed write
WriteFailedStep ==
    /\ Len(outcomes') = Len(outcomes) + 1
    /\ Last(outcomes') = "write_failed"

\* C7 as claimed: a failed write in either script ends the run, and no identity after
\* the failing one is processed
C7_WriteFailureEndsRun ==
    \A i \in 1..Len(outcomes) :
        outcomes[i] = "write_failed" => (i = Len(outcomes) /\ status \in {"crash", "exit"})

\* C7 as the code has it: in the CSV script an exception from writing value.lp.gz ends
\* the run (nothing runs after it); in the live script an exception from write_points
\* is caught inside convert_and_write_to_influx, logged as an error, and the loop goes
\* on with the next identity
C7_WriteFailureByScript ==
    [][/\ (WriteFailedStep /\ script = "csv") => status' \in {"crash", "exit"}
       /\ (WriteFailedStep /\ script = "influx")
            => /\ status' = "running"
               /\ idx' = idx + 1
               /\ Last(log').level = "error"
               /\ Last(log').msg = "Failed to read from Whisper file"
       /\ status \notin {"crash", "exit"}]_vars

\* a live run in which a write failed and a later identity was converted all the same
C7_Witness ==
    /\ script = "influx"
    /\ Len(outcomes) >= 2
    /\ outcomes[Len(outcomes) - 1] = "write_failed"
    /\ LastOutcomeIs("converted")
    /\ written # <<>>

(***************************************************************************)
(* C8                                                                      *)
(***************************************************************************)
\* the step that ends an identity whose file is missing or cannot be read
ReadMissStep ==
    /\ Len(outcomes') = Len(outcomes) + 1
    /\ Last(outcomes') \in {"missing", "no_data", "read_failed"}

\* the "Processed row" records of the log
RowsLogged == {k \in 1..Len(log) : log[k].msg = "Processed row"}

\* C8: whisper.fetch is called for existing value.wsp files only; an identity whose
\* file is missing, or whose fetch raises or returns None, emits no record and writes
\* nothing, is logged, and the run goes on to the next identity: a run that ends
\* normally has gone through every identity
C8_FailureIsolation ==
    /\ [](\A i \in 1..Len(fetch_calls) : fetch_calls[i][1] \in wsp_files)
    /\ []((status = "done" /\ script = "influx") => Len(outcomes) = Len(work))
    /\ []((status = "done" /\ script = "csv") => Cardinality(RowsLogged) = Len(work))
    /\ [][ReadMissStep
            => /\ emitted' = <<>>
               /\ written' = written
               /\ lp_files' = lp_files
               /\ Last(outcomes') = "missing"
                    => (fetch_calls' = fetch_calls /\ Last(log').path \notin wsp_files)
               /\ Len(log') > Len(log)
               /\ Last(log').level \in {"warning", "error"}
               /\ Last(log').path # <<>>
               /\ status' = "running"
               /\ IF script = "influx" THEN idx' = idx + 1 ELSE midx' = midx + 1]_vars

\* a run in which an identity was missed or failed to read and a later one was converted
C8_Witness ==
    /\ Len(outcomes) >= 2
    /\ outcomes[Len(outcomes) - 1] \in {"missing", "no_data", "read_failed"}
    /\ LastOutcomeIs("converted")
    /\ emitted # <<>>

(***************************************************************************)
(* C9                                                                      *)
(***************************************************************************)
\* the number of characters c among s[a..b]
CountChar(s, c, a, b) == Cardinality({k \in a..b : s[k] = c})

\* the index of the first c among s[a..b]
FirstChar(s, c, a, b) ==
    CHOOSE k \in a..b : s[k] = c /\ \A j \in a..(k - 1) : s[j] # c

\* the index of the last character of the stretch without whitespace that starts at i
RECURSIVE StretchEnd(_, _)
StretchEnd(s, i) ==
    IF i < Len(s) /\ s[i + 1] \notin Whitespace THEN StretchEnd(s, i + 1) ELSE i

IllFormed == [ok |-> FALSE, labels |-> <<>>]

LabelThen(label, rest) == [ok |-> rest.ok, labels |-> <<label>> \o rest.labels]

\* performance data read as tokens separated by whitespace, from index i on: a token
\* is label=value or 'label'=value (the quoted label may hold whitespace) with a
\* value free of "=" and "'", or a stretch without "=" and "'", which names no
\* metric.  [ok, labels]: ok is FALSE when the text is not of that form
RECURSIVE PerfTokens(_, _)
PerfTokens(s, i) ==
    IF i > Len(s) THEN [ok |-> TRUE, labels |-> <<>>]
    ELSE IF s[i] \in Whitespace THEN PerfTokens(s, i + 1)
    ELSE IF s[i] = "'"
    THEN IF CountChar(s, "'", i + 1, Len(s)) = 0 THEN IllFormed
         ELSE LET q == FirstChar(s, "'", i + 1, Len(s))
              IN  IF q + 2 > Len(s) \/ s[q + 1] # "=" \/ s[q + 2] \in Whitespace
                  THEN IllFormed
                  ELSE LET e == StretchEnd(s, q + 2)
                       IN  IF CountChar(s, "'", q + 2, e) + CountChar(s, "=", q + 2, e) > 0
                           THEN IllFormed
                           ELSE LabelThen(SubSeq(s, i + 1, q - 1), PerfTokens(s, e + 1))
    ELSE LET e == StretchEnd(s, i)
         IN  IF CountChar(s, "'", i, e) > 0 THEN IllFormed
             ELSE IF CountChar(s, "=", i, e) = 0 THEN PerfTokens(s, e + 1)
             ELSE IF CountChar(s, "=", i, e) = 1 /\ s[i] # "=" /\ s[e] # "="
             THEN LabelThen(SubSeq(s, i, FirstChar(s, "=", i, e) - 1), PerfTokens(s, e + 1))
             ELSE IllFormed

\* the labels without repetitions, each where it came first
RECURSIVE FirstOccurrences(_)
FirstOccurrences(labels) ==
    IF labels = <<>> THEN <<>>
    ELSE LET front == FirstOccurrences(SubSeq(labels, 1, Len(labels) - 1))
         IN  IF \E k \in 1..Len(front) : front[k] = Last(labels) THEN front
             ELSE Append(front, Last(labels))

\* one candidate (label, sanitized label) per label
Candidates(labels) ==
    [k \in 1..Len(FirstOccurrences(labels)) |->
        <<FirstOccurrences(labels)[k], sanitize_name(FirstOccurrences(labels)[k], TRUE)>>]

Str_m_1_sanitized == <<"m", "_", "1">>
Str_converted == <<" ", "(", "c", "o", "n", "v", "e", "r", "t", "e", "d", ")">>

\* the same run for the row 'm 1'=5 m2=10, whose tokens a blank separates
BlankRowDone ==
    /\ script = "csv"
    /\ Len(work) = 1
    /\ work[1].perf_data = Perf_blank
    /\ wsp_files = {CsvPath(Str_m_1)}
    /\ idx = 2

\* the run of the scenario: the one row 'm 1'=5;m2=10, of the wsp files only that
\* of m_1 there, the row gone through
ScenarioRowDone ==
    /\ script = "csv"
    /\ Len(work) = 1
    /\ work[1].perf_data = Perf_semicolon
    /\ wsp_files = {CsvPath(Str_m_1)}
    /\ idx = 2

\* C9 as claimed: the row 'm 1'=5;m2=10 yields the two candidates "m 1" (sanitized
\* m_1) and m2, a semicolon separating tokens as whitespace does
C9_SemicolonSeparatesTokens ==
    (script = "csv" /\ midx > 0 /\ work[idx].perf_data = Perf_semicolon)
        => metrics = << <<Str_m_1, Str_m_1_sanitized>>, <<Str_m2, Str_m2>> >>

\* C9 as the code has it: parse_performance_data yields one candidate per distinct
\* label of the key=value tokens separated by whitespace; a semicolon separates
\* nothing, so the row 'm 1'=5;m2=10 yields the one candidate "m 1" (sanitized m_1),
\* and with only the wsp file of m_1 there, the row makes at most the one export
\* file of m_1 and no "(missing)" entry; the row 'm 1'=5 m2=10 yields both
\* candidates and the "(missing)" entry of m2
C9_BlankSeparatedTokens ==
    /\ (script = "csv" /\ midx > 0)
         => /\ PerfTokens(work[idx].perf_data, 1).ok
                 => metrics = Candidates(PerfTokens(work[idx].perf_data, 1).labels)
            /\ work[idx].perf_data = Perf_semicolon
                 => metrics = << <<Str_m_1, Str_m_1_sanitized>> >>
    /\ ScenarioRowDone
         => /\ Len(outcomes) = 1
            /\ outcomes # <<"missing">>
            /\ DOMAIN lp_files \subseteq {lp_gz_path_of(CsvPath(Str_m_1))}
            /\ metric_info \in {<<>>, <<Str_m_1 \o Str_converted>>}
            /\ outcomes = <<"converted">>
                 => /\ DOMAIN lp_files = {lp_gz_path_of(CsvPath(Str_m_1))}
                    /\ metric_info = <<Str_m_1 \o Str_converted>>
    /\ BlankRowDone
         => /\ Len(outcomes) = 2
            /\ Last(outcomes) = "missing"
            /\ Last(metric_info) = Str_m2 \o <<" ", "(", "m", "i", "s", "s", "i", "n", "g", ")">>

\* the scenario run to its end: one export file, of m_1, and nothing missing
C9_Witness ==
    /\ ScenarioRowDone
    /\ status = "done"
    /\ outcomes = <<"converted">>
    /\ DOMAIN lp_files = {lp_gz_path_of(CsvPath(Str_m_1))}

====
